---- MODULE Spec2Model ----
(***************************************************************************)
(* The #[hook] attribute macro of yew-macro (packages/yew-macro/src/hook):  *)
(* HookFn::parse validates a function definition, hook_impl rewrites it     *)
(* into a public function that builds a Hook provider around an inner       *)
(* implementation function.  The emitted token stream is modelled as a      *)
(* structured value, and the emitted provider code is then run to observe   *)
(* how arguments reach the inner function.                                  *)
(***************************************************************************)
EXTENDS Integers, Sequences, FiniteSets, TLC

VARIABLES
    input,        \* the macro's input token stream
    pc,           \* position of the invocation
    hook,         \* <<HookFn>> once parse returned Ok, <<>> otherwise
    diagnostics,  \* the emit_error! sink: sequence of [span, msg]
    hookSig,      \* <<HookSignature>> once hook_impl computed it, <<>> otherwise
    output,       \* <<TokenStream>> once hook_impl returned Ok, <<>> otherwise
    doctest,      \* the build's cfg(doctest) value, fixed when the output is compiled
    active,       \* the items of the output whose #[cfg] holds in this build
    provider,     \* <<value>> returned by a call of the public function
    innerCall     \* <<argument values>> of the call of inner_fn made by the provider

vars == <<input, pc, hook, diagnostics, hookSig, output, doctest, active, provider, innerCall>>

(***************************************************************************)
(* Bounds of the model.                                                     *)
(***************************************************************************)
MaxParams == 2   \* parameters of the hook function
MaxArgs == 2     \* arguments written at a call in the body
MaxDepth == 2    \* nesting depth of the expressions of the body

(***************************************************************************)
(* Identifiers are sequences of characters, so that starts_with is          *)
(* computed on the characters.                                              *)
(***************************************************************************)
HookPrefix == <<"u", "s", "e", "_">>

N_use_counter == <<"u", "s", "e", "_", "c", "o", "u", "n", "t", "e", "r">>
N_use_state == <<"u", "s", "e", "_", "s", "t", "a", "t", "e">>
N_use_thing == <<"u", "s", "e", "_", "t", "h", "i", "n", "g">>
N_compute_value == <<"c", "o", "m", "p", "u", "t", "e", "_", "v", "a", "l", "u", "e">>
N_use == <<"u", "s", "e">>
N_user == <<"u", "s", "e", "r">>
N_Use_x == <<"U", "s", "e", "_", "x">>
N_my_use_x == <<"m", "y", "_", "u", "s", "e", "_", "x">>
N_foo == <<"f", "o", "o">>

\* str::starts_with
StartsWith(s, p) == Len(s) >= Len(p) /\ SubSeq(s, 1, Len(p)) = p

FnNames == {N_use_counter, N_use_thing, HookPrefix, N_compute_value, N_use,
            N_user, N_Use_x, N_my_use_x}

(***************************************************************************)
(* syn::Type, as far as the macro inspects it.                              *)
(***************************************************************************)
TPath(n) == [kind |-> "Path", name |-> n, lifetime |-> "", inner |-> <<>>]
TGeneric(n, t) == [kind |-> "Path", name |-> n, lifetime |-> "", inner |-> <<t>>]
TImplTrait(n) == [kind |-> "ImplTrait", name |-> n, lifetime |-> "", inner |-> <<>>]
TReference(lt, t) == [kind |-> "Reference", name |-> "&", lifetime |-> lt, inner |-> <<t>>]

T_i32 == TPath("i32")
T_unit == [kind |-> "Tuple", name |-> "()", lifetime |-> "", inner |-> <<>>]
T_implClone == TImplTrait("Clone")
T_refStr == TReference("", TPath("str"))
T_optImpl == TGeneric("Option", T_implClone)

(***************************************************************************)
(* syn::Expr, as far as the macro's visitor distinguishes it.  A Call has a *)
(* target path (func) and written arguments; If, Loop, Match and Block hold *)
(* sub-expressions; Closure and Fn (a nested item) hold a body.             *)
(***************************************************************************)
EPath(x) == [kind |-> "Path", func |-> <<>>, ident |-> x, args |-> <<>>, children |-> <<>>]
ECall(f, as) == [kind |-> "Call", func |-> f, ident |-> "", args |-> as, children |-> <<>>]
EWrap(k, cs) == [kind |-> k, func |-> <<>>, ident |-> "", args |-> <<>>, children |-> cs]
EBlock(stmts) == EWrap("Block", stmts)

(***************************************************************************)
(* syn::ItemFn and syn::Signature.  output is <<>> for ReturnType::Default  *)
(* and <<ty>> for ReturnType::Type(_, ty).                                  *)
(***************************************************************************)
Sig(cn, as, un, ab, id, gs, ins, out) ==
    [constness |-> cn, asyncness |-> as, unsafety |-> un, abi |-> ab,
     ident |-> id, generics |-> gs, inputs |-> ins, output |-> out]
PlainSig(id, gs, ins, out) == Sig(FALSE, FALSE, FALSE, FALSE, id, gs, ins, out)
ItemFn(at, vi, sg, bl) == [attrs |-> at, vis |-> vi, sig |-> sg, block |-> bl]
FnArg(p, t) == [pat |-> p, ty |-> t]
GType(n) == [kind |-> "type", name |-> n]
GLifetime(n) == [kind |-> "lifetime", name |-> n]

(***************************************************************************)
(* The inputs the model draws from.                                         *)
(***************************************************************************)
ParamName(i) == <<"a", "b", "c", "d">>[i]
ParamTypes == {T_i32, T_implClone, T_refStr}
ParamLists ==
    UNION {{[i \in 1..n |-> FnArg(ParamName(i), ts[i])] : ts \in [1..n -> ParamTypes]}
           : n \in 0..MaxParams}
ReturnTypes == {<<>>, <<T_i32>>, <<T_implClone>>, <<T_refStr>>, <<T_optImpl>>}
GenericLists == {<<>>, <<GType("T")>>, <<GLifetime("'a"), GType("T")>>}
Visibilities == {"", "pub"}
Attr(p, v) == [path |-> p, value |-> v]
AttrLists == {<<>>, <<Attr("inline", <<>>)>>}

PathNames == {"a", "b"}
RECURSIVE SeqsUpTo(_, _)
SeqsUpTo(S, n) ==
    IF n = 0 THEN {<<>>}
    ELSE LET shorter == SeqsUpTo(S, n - 1)
         IN  shorter \cup {Append(q, x) : q \in {r \in shorter : Len(r) = n - 1}, x \in S}
ArgLists == SeqsUpTo({EPath(x) : x \in PathNames}, MaxArgs)
CallTargets == {N_use_state, N_user, N_foo}
Atoms == {EPath("a")} \cup {ECall(f, as) : f \in CallTargets, as \in ArgLists}
CondAtoms == {EPath("a"), ECall(N_use_state, <<>>)}
RECURSIVE Exprs(_)
Exprs(d) ==
    IF d = 0 THEN Atoms
    ELSE LET sub == Exprs(d - 1)
         IN  Atoms
             \cup {EWrap(k, <<c>>) : k \in {"Loop", "Match", "Block", "Closure", "Fn"}, c \in sub}
             \cup {EWrap("If", <<cond, c>>) : cond \in CondAtoms, c \in sub}

SampleBody == EBlock(<<ECall(N_use_state, <<EPath("a")>>)>>)

\* every name with every combination of the four modifiers
ValidatorInputs ==
    {ItemFn(<<>>, "pub", Sig(cn, as, un, ab, id, <<>>, <<FnArg("a", T_i32)>>, <<T_i32>>), SampleBody)
       : cn \in BOOLEAN, as \in BOOLEAN, un \in BOOLEAN, ab \in BOOLEAN, id \in FnNames}
\* every shape of signature
SignatureInputs ==
    {ItemFn(at, vi, PlainSig(N_use_thing, gs, ins, out), SampleBody)
       : at \in AttrLists, vi \in Visibilities, gs \in GenericLists,
         ins \in ParamLists, out \in ReturnTypes}
\* every body (b is an item in scope of the function)
BodyInputs ==
    {ItemFn(<<>>, "", PlainSig(N_use_counter, <<>>, <<FnArg("a", T_i32)>>, <<T_i32>>), bl)
       : bl \in {EBlock(<<>>)} \cup {EBlock(<<e>>) : e \in Exprs(MaxDepth)}
                \cup {EBlock(<<e1, e2>>) : e1 \in Atoms, e2 \in CondAtoms}}
\* use_counter(initial: i32) -> i32 { use_state(initial) }
ScenarioA ==
    ItemFn(<<>>, "", PlainSig(N_use_counter, <<>>, <<FnArg("initial", T_i32)>>, <<T_i32>>),
           EBlock(<<ECall(N_use_state, <<EPath("initial")>>)>>))
\* use_thing() -> impl Clone { ... }
ScenarioB ==
    ItemFn(<<>>, "", PlainSig(N_use_thing, <<>>, <<>>, <<T_implClone>>),
           EBlock(<<ECall(N_foo, <<>>)>>))
\* async fn compute_value() { ... }
ScenarioC ==
    ItemFn(<<>>, "", Sig(FALSE, TRUE, FALSE, FALSE, N_compute_value, <<>>, <<>>, <<>>),
           EBlock(<<>>))

FnInputs == ValidatorInputs \cup SignatureInputs \cup BodyInputs
            \cup {ScenarioA, ScenarioB, ScenarioC}
\* token streams that are not a function definition
OtherInputs == {"struct", "garbage"}
Inputs == {[kind |-> "fn", what |-> "", item |-> <<f>>] : f \in FnInputs}
          \cup {[kind |-> "other", what |-> w, item |-> <<>>] : w \in OtherInputs}

(***************************************************************************)
(* HookFn::parse.  The ItemFn parse fails on anything that is not a         *)
(* function definition and `?` returns the error before any check runs.     *)
(* Each emit_error! appends one diagnostic, spanned on the sig field it is  *)
(* given, to the sink; the value returned is Self { inner: func }.          *)
(* The naming message is written without the backquotes around use_.       *)
(***************************************************************************)
Diag(sp, m) == [span |-> sp, msg |-> m]
When(c, d) == IF c THEN <<d>> ELSE <<>>

\* mutant: the checks chained with else, so only the first violation is reported
M_ValidatorDiagnostics_FirstOnly(sig) ==
    IF sig.asyncness THEN <<Diag("sig.asyncness", "async functions can't be hooks")>>
    ELSE IF sig.constness THEN <<Diag("sig.constness", "const functions can't be hooks")>>
    ELSE IF sig.abi THEN <<Diag("sig.abi", "extern functions can't be hooks")>>
    ELSE IF sig.unsafety THEN <<Diag("sig.unsafety", "unsafe functions can't be hooks")>>
    ELSE When(~StartsWith(sig.ident, HookPrefix),
              Diag("sig.ident", "hooks must have a name starting with use_"))

\* mutant: the naming error spanned on the whole function instead of its name
M_ValidatorDiagnostics_WholeFnSpan(sig) ==
    When(sig.asyncness, Diag("sig.asyncness", "async functions can't be hooks"))
    \o When(sig.constness, Diag("sig.constness", "const functions can't be hooks"))
    \o When(sig.abi, Diag("sig.abi", "extern functions can't be hooks"))
    \o When(sig.unsafety, Diag("sig.unsafety", "unsafe functions can't be hooks"))
    \o When(~StartsWith(sig.ident, HookPrefix),
            Diag("func", "hooks must have a name starting with use_"))

ValidatorDiagnostics(sig) ==
    When(sig.asyncness, Diag("sig.asyncness", "async functions can't be hooks"))
    \o When(sig.constness, Diag("sig.constness", "const functions can't be hooks"))
    \o When(sig.abi, Diag("sig.abi", "extern functions can't be hooks"))
    \o When(sig.unsafety, Diag("sig.unsafety", "unsafe functions can't be hooks"))
    \o When(~StartsWith(sig.ident, HookPrefix),
            Diag("sig.ident", "hooks must have a name starting with use_"))

ParseItemFn(tokens) == IF tokens.kind = "fn" THEN tokens.item ELSE <<>>

\* mutant: a violated constraint makes parse return Err
M_HookFn_parse_FatalChecks(tokens) ==
    LET func == ParseItemFn(tokens)
    IN  IF func = <<>>
        THEN [ok |-> FALSE, value |-> <<>>, emitted |-> <<>>]
        ELSE LET ds == ValidatorDiagnostics(func[1].sig)
             IN  IF ds # <<>>
                 THEN [ok |-> FALSE, value |-> <<>>, emitted |-> ds]
                 ELSE [ok |-> TRUE, value |-> <<[inner |-> func[1]]>>, emitted |-> ds]

HookFn_parse(tokens) ==
    LET func == ParseItemFn(tokens)
    IN  IF func = <<>>
        THEN [ok |-> FALSE, value |-> <<>>, emitted |-> <<>>]
        ELSE [ok |-> TRUE, value |-> <<[inner |-> func[1]]>>,
              emitted |-> ValidatorDiagnostics(func[1].sig)]

(***************************************************************************)
(* HookSignature (hook/signature.rs): the rewritten signature, the output   *)
(* type, needs_boxing and the hook lifetime, and its accessors.             *)
(***************************************************************************)
HookLifetime == "'hook"

RECURSIVE ContainsImplTrait(_)
ContainsImplTrait(t) ==
    t.kind = "ImplTrait" \/ \E i \in 1..Len(t.inner) : ContainsImplTrait(t.inner[i])

\* mutant: boxing decided by the return type alone, unless it is impl-trait
M_NeedsBoxing_ReturnNotImpl(sig) ==
    ~(sig.output # <<>> /\ sig.output[1].kind = "ImplTrait")

\* boxing is needed when an impl-trait type occurs in the signature
NeedsBoxing(sig) ==
    \/ \E i \in 1..Len(sig.inputs) : ContainsImplTrait(sig.inputs[i].ty)
    \/ \E i \in 1..Len(sig.output) : ContainsImplTrait(sig.output[i])

\* an elided reference lifetime becomes the hook lifetime
RECURSIVE UseHookLifetime(_)
UseHookLifetime(t) ==
    [t EXCEPT !.lifetime = IF t.kind = "Reference" /\ t.lifetime = "" THEN HookLifetime ELSE @,
              !.inner = [i \in 1..Len(t.inner) |-> UseHookLifetime(t.inner[i])]]

RewriteType(t, boxing) == IF boxing THEN UseHookLifetime(t) ELSE t

HookSignature_rewrite(sig) ==
    LET boxing == NeedsBoxing(sig)
        new_inputs == [i \in 1..Len(sig.inputs) |->
                         [sig.inputs[i] EXCEPT !.ty = RewriteType(@, boxing)]]
        new_output == [i \in 1..Len(sig.output) |-> RewriteType(sig.output[i], boxing)]
    IN  [sig |-> [sig EXCEPT !.inputs = new_inputs, !.output = new_output],
         output_type |-> IF new_output = <<>> THEN T_unit ELSE new_output[1],
         needs_boxing |-> boxing,
         hook_lifetime |-> HookLifetime]

input_args(hook_sig) == [i \in 1..Len(hook_sig.sig.inputs) |-> hook_sig.sig.inputs[i].pat]
input_types(hook_sig) == [i \in 1..Len(hook_sig.sig.inputs) |-> hook_sig.sig.inputs[i].ty]

(***************************************************************************)
(* BodyRewriter (hook/body.rs): a call whose target starts with the hook    *)
(* prefix gets the context as its first argument; blocks, conditionals,     *)
(* loops and match arms are visited; closures and nested functions are not. *)
(***************************************************************************)
\* mutant: closures and nested functions visited like any other expression
RECURSIVE M_BodyRewriter_visit_IntoClosures(_, _)
M_BodyRewriter_visit_IntoClosures(ctx, e) ==
    IF e.kind = "Call"
    THEN IF StartsWith(e.func, HookPrefix)
         THEN [e EXCEPT !.args = <<EPath(ctx)>> \o @]
         ELSE e
    ELSE [e EXCEPT !.children =
            [i \in 1..Len(e.children) |->
               M_BodyRewriter_visit_IntoClosures(ctx, e.children[i])]]

RECURSIVE BodyRewriter_visit(_, _)
BodyRewriter_visit(ctx_ident, e) ==
    CASE e.kind = "Call" ->
           IF StartsWith(e.func, HookPrefix)
           THEN [e EXCEPT !.args = <<EPath(ctx_ident)>> \o @]
           ELSE e
      [] e.kind \in {"Closure", "Fn"} -> e
      [] OTHER ->
           [e EXCEPT !.children =
              [i \in 1..Len(e.children) |-> BodyRewriter_visit(ctx_ident, e.children[i])]]

(***************************************************************************)
(* HookFn::doc_attr: the function is rendered with a dummy body, the dummy  *)
(* is replaced by the omission notice, and the text becomes the value of a  *)
(* #[doc = ...] attribute.                                                  *)
(***************************************************************************)
DummyBody == "__yew_macro_dummy_function_body__"
OmittedBody == "/* implementation omitted */"

doc_attr(h) ==
    LET rendered == [h.inner EXCEPT !.block = EBlock(<<EPath(DummyBody)>>)]
        replaced == [rendered EXCEPT !.block =
                       EBlock(<<EPath(IF @.children[1].ident = DummyBody
                                      THEN OmittedBody ELSE @.children[1].ident)>>)]
    IN  Attr("doc", <<replaced>>)

(***************************************************************************)
(* hook_impl.  The token stream it returns holds two items: the rewritten   *)
(* function under #[cfg(not(doctest))] and the original under               *)
(* #[cfg(doctest)].                                                         *)
(***************************************************************************)
\* mutant: the context named without the leading underscore
M_ctx_ident_NoUnderscore == "ctx"

ctx_ident == "_ctx"
inner_fn_ident == "inner_fn"
HookContextRef ==
    [kind |-> "Reference", name |-> "&mut", lifetime |-> "",
     inner |-> <<TPath("::yew::functional::HookContext")>>]

\* None for ReturnType::Default, the arrow and the output type otherwise
inner_fn_rt(sig, hook_sig) == IF sig.output = <<>> THEN <<>> ELSE <<hook_sig.output_type>>

\* the block is a clone of the original's, visited by the body rewriter
rewritten_block(block) == BodyRewriter_visit(ctx_ident, block)

\* fn inner_fn #generics (_ctx: &mut HookContext, #inputs) #inner_fn_rt #block
inner_fn(sig, hook_sig, block) ==
    [ident |-> inner_fn_ident,
     generics |-> hook_sig.sig.generics,
     inputs |-> <<FnArg(ctx_ident, HookContextRef)>> \o hook_sig.sig.inputs,
     output |-> inner_fn_rt(sig, hook_sig),
     block |-> rewritten_block(block)]

\* generics.type_params().map(|t| &t.ident)
generic_types(generics) ==
    LET F[i \in 0..Len(generics)] ==
          IF i = 0 THEN <<>>
          ELSE IF generics[i].kind = "type" THEN Append(F[i - 1], generics[i].name)
               ELSE F[i - 1]
    IN  F[Len(generics)]

\* inner_fn::<generic types>(_ctx, input args), in the boxed closure
boxed_call(hook_sig) ==
    [func |-> inner_fn_ident,
     generics |-> generic_types(hook_sig.sig.generics),
     args |-> <<ctx_ident>> \o input_args(hook_sig)]

boxed_impl(sig, hook_sig) ==
    LET with_output == hook_sig.output_type.kind # "ImplTrait"
        rt == IF with_output THEN inner_fn_rt(sig, hook_sig) ELSE <<>>
        boxed_fn_type == [lifetime |-> hook_sig.hook_lifetime, output |-> rt]
    IN  [strategy |-> "boxed",
         boxed_inner |-> [closure |-> [params |-> <<FnArg(ctx_ident, HookContextRef)>>,
                                       output |-> rt,
                                       call |-> boxed_call(hook_sig)],
                          as_boxed_fn |-> When(with_output, boxed_fn_type)],
         tail |-> [func |-> "::yew::functional::BoxedHook::new",
                   lifetime |-> hook_sig.hook_lifetime,
                   output_type |-> When(with_output, hook_sig.output_type),
                   args |-> <<"boxed_inner">>]]

\* mutant: the context forwarded after the arguments
M_struct_call_CtxLast(hook_sig) ==
    [func |-> inner_fn_ident, args |-> input_args(hook_sig) \o <<ctx_ident>>]

\* inner_fn(_ctx, input args), in HookProvider::run
struct_call(hook_sig) ==
    [func |-> inner_fn_ident, args |-> <<ctx_ident>> \o input_args(hook_sig)]

struct_impl(hook_sig) ==
    [strategy |-> "struct",
     struct |-> [name |-> "HookProvider",
                 generics |-> hook_sig.sig.generics,
                 args |-> input_types(hook_sig)],
     hook |-> [trait |-> "::yew::functional::Hook",
               output |-> hook_sig.output_type,
               run |-> [params |-> <<"self", ctx_ident>>,
                        destructure |-> input_args(hook_sig),
                        call |-> struct_call(hook_sig)]],
     new |-> [inputs |-> hook_sig.sig.inputs,
              args |-> input_args(hook_sig)],
     tail |-> [func |-> "HookProvider::new", args |-> input_args(hook_sig)]]

\* mutant: the struct provider emitted whatever needs_boxing is
M_inner_type_impl_AlwaysStruct(sig, hook_sig) == struct_impl(hook_sig)

inner_type_impl(sig, hook_sig) ==
    IF hook_sig.needs_boxing THEN boxed_impl(sig, hook_sig) ELSE struct_impl(hook_sig)

\* #vis #fn_token #ident #generics (#inputs) #hook_return_type: the modifiers
\* of the signature are not among the emitted tokens
public_sig(hook_sig) ==
    PlainSig(hook_sig.sig.ident, hook_sig.sig.generics, hook_sig.sig.inputs,
             hook_sig.sig.output)

\* mutant: the visibility left out of the emitted function
M_public_fn_NoVis(h, hook_sig) ==
    [cfg |-> "not(doctest)",
     attrs |-> h.inner.attrs \o <<doc_attr(h)>>,
     vis |-> "",
     sig |-> public_sig(hook_sig),
     block |-> [inner_fn |-> inner_fn(h.inner.sig, hook_sig, h.inner.block),
                inner_type_impl |-> inner_type_impl(h.inner.sig, hook_sig)]]

public_fn(h, hook_sig) ==
    [cfg |-> "not(doctest)",
     attrs |-> h.inner.attrs \o <<doc_attr(h)>>,
     vis |-> h.inner.vis,
     sig |-> public_sig(hook_sig),
     block |-> [inner_fn |-> inner_fn(h.inner.sig, hook_sig, h.inner.block),
                inner_type_impl |-> inner_type_impl(h.inner.sig, hook_sig)]]

\* mutant: the body rewriter run on the original's block in place
M_original_fn_Rewritten(h) ==
    [cfg |-> "doctest", attrs |-> h.inner.attrs, vis |-> h.inner.vis,
     sig |-> h.inner.sig, block |-> rewritten_block(h.inner.block)]

original_fn(h) ==
    [cfg |-> "doctest", attrs |-> h.inner.attrs, vis |-> h.inner.vis,
     sig |-> h.inner.sig, block |-> h.inner.block]

hook_impl(h) ==
    LET hook_sig == HookSignature_rewrite(h.inner.sig)
    IN  <<public_fn(h, hook_sig), original_fn(h)>>

(***************************************************************************)
(* The compiler keeps the items whose cfg predicate holds in the build.     *)
(***************************************************************************)
CfgHolds(cfg, dt) == IF cfg = "doctest" THEN dt ELSE ~dt

ActiveItems(items, dt) ==
    LET F[i \in 0..Len(items)] ==
          IF i = 0 THEN <<>>
          ELSE IF CfgHolds(items[i].cfg, dt) THEN Append(F[i - 1], items[i]) ELSE F[i - 1]
    IN  F[Len(items)]

(***************************************************************************)
(* Running the emitted code.  Parameters bind positionally; an identifier   *)
(* evaluates to the value bound to it.                                      *)
(***************************************************************************)
Values == {"v1", "v2"}
Contexts == {"hc"}

Range(q) == {q[i] : i \in 1..Len(q)}
Bind(names, vals) ==
    [n \in Range(names) |->
       vals[CHOOSE i \in 1..Len(names) :
              names[i] = n /\ \A j \in (i + 1)..Len(names) : names[j] # n]]
Eval(idents, env) == [i \in 1..Len(idents) |-> env[idents[i]]]
Pats(params) == [i \in 1..Len(params) |-> params[i].pat]
Extend(env, n, v) == [m \in DOMAIN env \cup {n} |-> IF m = n THEN v ELSE env[m]]

\* the value of the public function's tail expression
CallPublicFn(item, vals) ==
    LET impl == item.block.inner_type_impl
        env == Bind(Pats(item.sig.inputs), vals)
    IN  IF impl.strategy = "struct"
        THEN LET new_env == Bind(Pats(impl.new.inputs), Eval(impl.tail.args, env))
             IN  [strategy |-> "struct", args |-> Eval(impl.new.args, new_env), env |-> <<>>]
        ELSE [strategy |-> "boxed", args |-> <<>>, env |-> env]

\* the argument values of the call of inner_fn made by Hook::run / the closure
RunProviderCall(item, prov, c) ==
    LET impl == item.block.inner_type_impl
    IN  IF prov.strategy = "struct"
        THEN LET run == impl.hook.run
                 env == Extend(Bind(run.destructure, prov.args), run.params[2], c)
             IN  Eval(run.call.args, env)
        ELSE LET closure == impl.boxed_inner.closure
                 env == Extend(prov.env, closure.params[1].pat, c)
             IN  Eval(closure.call.args, env)

(***************************************************************************)
(* The invocation.                                                          *)
(***************************************************************************)
Init ==
    /\ input \in Inputs
    /\ pc = "start"
    /\ hook = <<>>
    /\ diagnostics = <<>>
    /\ hookSig = <<>>
    /\ output = <<>>
    /\ doctest = <<>>
    /\ active = <<>>
    /\ provider = <<>>
    /\ innerCall = <<>>

\* HookFn::parse on the input
Parse ==
    /\ pc = "start"
    /\ LET r == HookFn_parse(input)
       IN  /\ pc' = IF r.ok THEN "parsed" ELSE "aborted"
           /\ hook' = r.value
           /\ diagnostics' = diagnostics \o r.emitted
    /\ UNCHANGED <<input, hookSig, output, doctest, active, provider, innerCall>>

\* hook_impl on the parsed HookFn
HookImpl ==
    /\ pc = "parsed"
    /\ hookSig' = <<HookSignature_rewrite(hook[1].inner.sig)>>
    /\ output' = <<hook_impl(hook[1])>>
    /\ pc' = "emitted"
    /\ UNCHANGED <<input, hook, diagnostics, doctest, active, provider, innerCall>>

\* the output is compiled, in a doctest build or not
Compile ==
    /\ pc = "emitted"
    /\ \E dt \in BOOLEAN :
         /\ doctest' = <<dt>>
         /\ active' = ActiveItems(output[1], dt)
    /\ pc' = "compiled"
    /\ UNCHANGED <<input, hook, diagnostics, hookSig, output, provider, innerCall>>

\* the rewritten function is called and returns its provider
CallPublic ==
    /\ pc = "compiled"
    /\ doctest = <<FALSE>>
    /\ \E vals \in [1..Len(active[1].sig.inputs) -> Values] :
         provider' = <<[value |-> CallPublicFn(active[1], vals), given |-> vals]>>
    /\ pc' = "called"
    /\ UNCHANGED <<input, hook, diagnostics, hookSig, output, doctest, active, innerCall>>

\* the framework runs the provider with a hook context
RunProvider ==
    /\ pc = "called"
    /\ \E c \in Contexts :
         innerCall' = <<[args |-> RunProviderCall(active[1], provider[1].value, c), ctx |-> c]>>
    /\ pc' = "ran"
    /\ UNCHANGED <<input, hook, diagnostics, hookSig, output, doctest, active, provider>>

Next == Parse \/ HookImpl \/ Compile \/ CallPublic \/ RunProvider

Spec == Init /\ [][Next]_vars

(***************************************************************************)
(* Observers used by the properties.                                        *)
(***************************************************************************)
Past(stages) == pc \in stages
AfterParse == {"parsed", "emitted", "compiled", "called", "ran"}
AfterEmit == {"emitted", "compiled", "called", "ran"}
InSig == input.item[1].sig
InFn == input.item[1]
PublicOut == output[1][1]
B2N(b) == IF b THEN 1 ELSE 0
HasPrefix(id) == Len(id) >= 4 /\ id[1] = "u" /\ id[2] = "s" /\ id[3] = "e" /\ id[4] = "_"
ModifierCount(sig) ==
    B2N(sig.asyncness) + B2N(sig.constness) + B2N(sig.abi) + B2N(sig.unsafety)
ViolationCount(sig) == ModifierCount(sig) + B2N(~HasPrefix(sig.ident))
CountSpan(sp) == Cardinality({i \in 1..Len(diagnostics) : diagnostics[i].span = sp})

\* C1: after HookFn::parse returned Ok, the sink holds exactly one diagnostic
\* per violated constraint (async, const, extern, unsafe, missing use_ prefix)
\* and nothing else: none for a prefixed name without modifiers, and two for
\* an async fn compute_value.
C1_DiagnosticCount ==
    pc = "parsed" =>
      /\ Len(diagnostics) = ViolationCount(InSig)
      /\ CountSpan("sig.asyncness") = B2N(InSig.asyncness)
      /\ CountSpan("sig.constness") = B2N(InSig.constness)
      /\ CountSpan("sig.abi") = B2N(InSig.abi)
      /\ CountSpan("sig.unsafety") = B2N(InSig.unsafety)
      /\ CountSpan("sig.ident") = B2N(~HasPrefix(InSig.ident))
      /\ (HasPrefix(InSig.ident) /\ ModifierCount(InSig) = 0 => diagnostics = <<>>)
      /\ (InFn = ScenarioC => Len(diagnostics) = 2)

C1_Witness ==
    pc = "parsed" /\ InFn = ScenarioC /\ Len(diagnostics) = 2

\* C2 as stated: a name without the prefix yields exactly one diagnostic in
\* all, spanned on the name, and output is produced.
C2_Original ==
    Past(AfterParse) /\ ~HasPrefix(InSig.ident) =>
      /\ Len(diagnostics) = 1
      /\ diagnostics[1].span = "sig.ident"
      /\ (Past(AfterEmit) => output # <<>>)

\* C2 amended: a name without the prefix yields exactly one diagnostic spanned
\* on the name (sig.ident), carrying the naming message; every other
\* diagnostic is the one of a disallowed modifier that is present, so the
\* naming diagnostic is the only one exactly when no modifier is present;
\* hook_impl can still run and its output is produced.
C2_NamingDiagnostic ==
    Past(AfterParse) /\ ~HasPrefix(InSig.ident) =>
      /\ CountSpan("sig.ident") = 1
      /\ \A i \in 1..Len(diagnostics) :
           diagnostics[i].span = "sig.ident" =>
             diagnostics[i].msg = "hooks must have a name starting with use_"
      /\ Len(diagnostics) = 1 + ModifierCount(InSig)
      /\ (pc = "parsed" => ENABLED HookImpl)
      /\ (Past(AfterEmit) => output # <<>>)

C2_Witness ==
    /\ pc = "emitted" /\ output # <<>>
    /\ InSig.ident = N_my_use_x /\ ModifierCount(InSig) = 0
    /\ Len(diagnostics) = 1 /\ diagnostics[1].span = "sig.ident"

\* C3: the invocation aborts exactly when the input is not a function
\* definition, and then no check has run and there is no output; whatever
\* constraints are violated, the HookFn returned holds the parsed definition
\* unchanged, hook_impl can run, and once it has run there is an output.
C3_OutputIffParses ==
    /\ (pc = "aborted" <=> (pc # "start" /\ input.kind # "fn"))
    /\ (pc = "aborted" => diagnostics = <<>> /\ hook = <<>> /\ output = <<>>)
    /\ (output # <<>> => input.kind = "fn")
    /\ (Past(AfterParse) => hook = <<[inner |-> InFn]>>)
    /\ (pc = "parsed" => ENABLED HookImpl)
    /\ (Past(AfterEmit) => Len(output) = 1 /\ Len(output[1]) = 2)

C3_Witness ==
    pc = "emitted" /\ Len(diagnostics) = 5 /\ output # <<>> /\ hook[1].inner = InFn

ImplTypes == {T_implClone, T_optImpl}
ReturnIsImplTrait(sig) == sig.output # <<>> /\ sig.output[1].kind = "ImplTrait"
ImplOccurs(sig) ==
    \/ \E i \in 1..Len(sig.inputs) : sig.inputs[i].ty \in ImplTypes
    \/ \E i \in 1..Len(sig.output) : sig.output[i] \in ImplTypes
Strategy == PublicOut.block.inner_type_impl.strategy

C5_ScenarioA ==
    Past(AfterEmit) /\ InFn = ScenarioA =>
      LET body == PublicOut.block
      IN  /\ body.inner_fn.ident = "inner_fn"
          /\ body.inner_fn.block =
               EBlock(<<ECall(N_use_state, <<EPath("_ctx"), EPath("initial")>>)>>)
          /\ body.inner_type_impl.strategy = "struct"
          /\ body.inner_type_impl.struct.name = "HookProvider"
          /\ body.inner_type_impl.struct.args = <<T_i32>>
          /\ body.inner_type_impl.hook.output = T_i32
          /\ body.inner_type_impl.hook.run.call.func = "inner_fn"
          /\ body.inner_type_impl.new.inputs = <<FnArg("initial", T_i32)>>
          /\ body.inner_type_impl.tail.func = "HookProvider::new"
          /\ ~hookSig[1].needs_boxing

C5_Witness ==
    pc = "ran" /\ InFn = ScenarioA /\ provider[1].value.strategy = "struct"
    /\ innerCall[1].args = <<"hc", "v2">>

\* C6: for use_thing() -> impl Clone { ... } needs_boxing is true and the
\* output boxes a closure taking the hook context and calling the inner
\* function, and passes the box to BoxedHook::new; no struct provider is
\* emitted.
C6_ScenarioB ==
    Past(AfterEmit) /\ InFn = ScenarioB =>
      LET impl == PublicOut.block.inner_type_impl
      IN  /\ hookSig[1].needs_boxing
          /\ impl.strategy = "boxed"
          /\ Pats(impl.boxed_inner.closure.params) = <<"_ctx">>
          /\ impl.boxed_inner.closure.call.func = "inner_fn"
          /\ impl.tail.func = "::yew::functional::BoxedHook::new"
          /\ impl.tail.args = <<"boxed_inner">>

C6_Witness ==
    pc = "ran" /\ InFn = ScenarioB /\ provider[1].value.strategy = "boxed"
    /\ innerCall[1].args = <<"hc">>

ItemOf(x) == [attrs |-> x.attrs, vis |-> x.vis, sig |-> x.sig, block |-> x.block]
Changes(block) == BodyRewriter_visit("_ctx", block) # block

\* C8: in every build exactly one item of the output is in effect: in a
\* doctest build the input definition exactly as given (body, signature and
\* attributes), in any other build the rewritten function.
C8_OneDefinition ==
    /\ Past(AfterEmit) =>
         \A dt \in BOOLEAN :
           Cardinality({i \in 1..Len(output[1]) :
                          (output[1][i].cfg = "doctest") = dt}) = 1
    /\ Past({"compiled", "called", "ran"}) =>
         /\ Len(active) = 1
         /\ doctest = <<TRUE>> =>
              /\ active[1].cfg = "doctest"
              /\ ItemOf(active[1]) = InFn
         /\ doctest = <<FALSE>> =>
              /\ active[1].cfg = "not(doctest)"
              /\ active[1] = PublicOut
              /\ active[1].block.inner_fn.ident = "inner_fn"

C8_Witness ==
    /\ pc = "compiled" /\ doctest = <<TRUE>> /\ Len(active) = 1
    /\ ItemOf(active[1]) = InFn
    /\ Changes(InFn.block) /\ InSig.output = <<T_refStr>> /\ hookSig[1].needs_boxing

(***************************************************************************)
(* Observers of a body: its calls in source order, outside or inside        *)
(* closures and nested functions, and its shape with the argument lists of  *)
(* the calls left out.                                                      *)
(***************************************************************************)
RECURSIVE Calls(_, _, _)
Calls(e, inside, want) ==
    IF e.kind = "Call" THEN (IF inside = want THEN <<e>> ELSE <<>>)
    ELSE LET deeper == inside \/ e.kind \in {"Closure", "Fn"}
             F[i \in 0..Len(e.children)] ==
               IF i = 0 THEN <<>> ELSE F[i - 1] \o Calls(e.children[i], deeper, want)
         IN  F[Len(e.children)]

RECURSIVE Skeleton(_)
Skeleton(e) ==
    [e EXCEPT !.args = <<>>,
              !.children = [i \in 1..Len(e.children) |-> Skeleton(e.children[i])]]

InBody == InFn.block
OutBody == PublicOut.block.inner_fn.block

\* C9: in the body of the inner function every call outside closures and
\* nested functions whose target starts with use_ has _ctx as first argument
\* followed by the written arguments in their order, at any depth of blocks,
\* conditionals, loops and match arms; any other call there, and every call
\* inside a closure or nested function, has the written arguments; nothing
\* else of the body differs from the input's.
C9_ScopeAwareRewrite ==
    Past(AfterEmit) =>
      LET inOuter == Calls(InBody, FALSE, FALSE)
          outOuter == Calls(OutBody, FALSE, FALSE)
      IN  /\ Skeleton(OutBody) = Skeleton(InBody)
          /\ Calls(OutBody, FALSE, TRUE) = Calls(InBody, FALSE, TRUE)
          /\ Len(outOuter) = Len(inOuter)
          /\ \A i \in 1..Len(inOuter) :
               /\ outOuter[i].func = inOuter[i].func
               /\ outOuter[i].args =
                    IF HasPrefix(inOuter[i].func)
                    THEN <<EPath("_ctx")>> \o inOuter[i].args
                    ELSE inOuter[i].args

C9_Witness ==
    /\ pc = "emitted"
    /\ InBody = EBlock(<<EWrap("If", <<ECall(N_use_state, <<>>),
                   EWrap("Closure", <<ECall(N_use_state, <<EPath("a"), EPath("b")>>)>>)>>)>>)
    /\ OutBody = EBlock(<<EWrap("If", <<ECall(N_use_state, <<EPath("_ctx")>>),
                   EWrap("Closure", <<ECall(N_use_state, <<EPath("a"), EPath("b")>>)>>)>>)>>)

\* C10: the inner function is declared with _ctx: &mut HookContext first and
\* then the original parameters in order; every forwarding site names _ctx
\* first and then the original parameter names in order; running the
\* provider built from (a1..an) with context c calls the inner function with
\* (c, a1..an), under the struct and the boxed strategy alike.
C10_ArgumentForwarding ==
    /\ Past(AfterEmit) =>
         LET names == Pats(InSig.inputs)
             body == PublicOut.block
             impl == body.inner_type_impl
         IN  /\ Pats(body.inner_fn.inputs) = <<"_ctx">> \o names
             /\ body.inner_fn.inputs[1].ty = HookContextRef
             /\ SubSeq(body.inner_fn.inputs, 2, Len(body.inner_fn.inputs)) = PublicOut.sig.inputs
             /\ impl.strategy = "struct" =>
                  /\ impl.tail.args = names
                  /\ Pats(impl.new.inputs) = names
                  /\ impl.new.args = names
                  /\ impl.hook.run.destructure = names
                  /\ impl.hook.run.call.args = <<"_ctx">> \o names
             /\ impl.strategy = "boxed" =>
                  impl.boxed_inner.closure.call.args = <<"_ctx">> \o names
    /\ pc = "ran" =>
         innerCall[1].args = <<innerCall[1].ctx>> \o provider[1].given

C10_Witness ==
    /\ pc = "ran" /\ Len(provider[1].given) = 2
    /\ provider[1].given = <<"v1", "v2">>
    /\ provider[1].value.strategy = "struct"
    /\ innerCall[1].args = <<"hc", "v1", "v2">>

====
